---- MODULE Spec2Model ----
(***************************************************************************)
(* uuid47: the keyed, reversible transform between a UUIDv7 and a          *)
(* UUIDv4-looking facade (Encode / Decode), the text codec (Parse /        *)
(* String) and the helpers they are built from.                            *)
(*                                                                         *)
(* A byte is an integer 0..255.  A Go uint64 is the tuple of its 8 bytes,  *)
(* byte 0 the least significant, so every operation keeps the 64-bit       *)
(* width.  A UUID is a function 0..15 -> byte and a string a function      *)
(* 0..len-1 -> character code, both with the source's indices.             *)
(***************************************************************************)
EXTENDS Integers, Naturals, Sequences, FiniteSets, TLC

----------------------------------------------------------------------------
(* Fixed-width integer arithmetic of the Go code.                          *)

Byte == 0..255

Pow2(n) == 2 ^ n

\* a ^ b on bytes: bit i of the result is the sum of the two bits i, mod 2.
Xor8(a, b) ==
    ((a + b) % 2)
    + 2 * (((a \div 2) + (b \div 2)) % 2)
    + 4 * (((a \div 4) + (b \div 4)) % 2)
    + 8 * (((a \div 8) + (b \div 8)) % 2)
    + 16 * (((a \div 16) + (b \div 16)) % 2)
    + 32 * (((a \div 32) + (b \div 32)) % 2)
    + 64 * (((a \div 64) + (b \div 64)) % 2)
    + 128 * (((a \div 128) + (b \div 128)) % 2)

\* a & b on bytes: bit i of the result is the product of the two bits i.
And8(a, b) ==
    ((a % 2) * (b % 2))
    + 2 * (((a \div 2) % 2) * ((b \div 2) % 2))
    + 4 * (((a \div 4) % 2) * ((b \div 4) % 2))
    + 8 * (((a \div 8) % 2) * ((b \div 8) % 2))
    + 16 * (((a \div 16) % 2) * ((b \div 16) % 2))
    + 32 * (((a \div 32) % 2) * ((b \div 32) % 2))
    + 64 * (((a \div 64) % 2) * ((b \div 64) % 2))
    + 128 * ((a \div 128) * (b \div 128))

\* a | b on bytes.
Or8(a, b) == a + b - And8(a, b)

\* byte(a << n) for a byte a: the bits shifted out are lost.
Shl8(a, n) == (a * Pow2(n)) % 256

\* a >> n for a byte a.
Shr8(a, n) == a \div Pow2(n)

\* A Go uint64: the tuple of its 8 bytes, least significant first.  At(v, i)
\* is byte i, bits 8i..8i+7.
At(v, i) == v[i + 1]

\* uint64(b) for a byte b.
U64(b) == <<b, 0, 0, 0, 0, 0, 0, 0>>

\* A uint64 literal from its bytes, most significant first.
U64BE(s) == <<s[8], s[7], s[6], s[5], s[4], s[3], s[2], s[1]>>

\* byte(v) for a uint64 v: the low 8 bits.
ToByte(v) == At(v, 0)

Xor64(a, b) ==
    <<Xor8(a[1], b[1]), Xor8(a[2], b[2]), Xor8(a[3], b[3]), Xor8(a[4], b[4]),
      Xor8(a[5], b[5]), Xor8(a[6], b[6]), Xor8(a[7], b[7]), Xor8(a[8], b[8])>>

And64(a, b) ==
    <<And8(a[1], b[1]), And8(a[2], b[2]), And8(a[3], b[3]), And8(a[4], b[4]),
      And8(a[5], b[5]), And8(a[6], b[6]), And8(a[7], b[7]), And8(a[8], b[8])>>

Or64(a, b) ==
    <<Or8(a[1], b[1]), Or8(a[2], b[2]), Or8(a[3], b[3]), Or8(a[4], b[4]),
      Or8(a[5], b[5]), Or8(a[6], b[6]), Or8(a[7], b[7]), Or8(a[8], b[8])>>

\* Byte i of a << (8q + s), 0 <= s < 8.
ShlByte(a, q, s, i) ==
    (IF i - q >= 0 THEN Shl8(At(a, i - q), s) ELSE 0)
    + (IF i - q - 1 >= 0 THEN Shr8(At(a, i - q - 1), 8 - s) ELSE 0)

\* a << n on uint64, 0 <= n < 64.
Shl64(a, n) ==
    <<ShlByte(a, n \div 8, n % 8, 0), ShlByte(a, n \div 8, n % 8, 1),
      ShlByte(a, n \div 8, n % 8, 2), ShlByte(a, n \div 8, n % 8, 3),
      ShlByte(a, n \div 8, n % 8, 4), ShlByte(a, n \div 8, n % 8, 5),
      ShlByte(a, n \div 8, n % 8, 6), ShlByte(a, n \div 8, n % 8, 7)>>

\* Byte i of a >> (8q + s), 0 <= s < 8.
ShrByte(a, q, s, i) ==
    (IF i + q <= 7 THEN Shr8(At(a, i + q), s) ELSE 0)
    + (IF i + q + 1 <= 7 THEN Shl8(At(a, i + q + 1), 8 - s) ELSE 0)

\* a >> n on uint64, 0 <= n < 64.
Shr64(a, n) ==
    <<ShrByte(a, n \div 8, n % 8, 0), ShrByte(a, n \div 8, n % 8, 1),
      ShrByte(a, n \div 8, n % 8, 2), ShrByte(a, n \div 8, n % 8, 3),
      ShrByte(a, n \div 8, n % 8, 4), ShrByte(a, n \div 8, n % 8, 5),
      ShrByte(a, n \div 8, n % 8, 6), ShrByte(a, n \div 8, n % 8, 7)>>

\* Byte i of a rotated left by n bits: the bits shifted up by n and the
\* bits that come round from the top, which do not overlap.
RotByte(a, n, i) ==
    ShlByte(a, n \div 8, n % 8, i)
    + ShrByte(a, (64 - n) \div 8, (64 - n) % 8, i)

\* bits.RotateLeft64(a, n), 0 < n < 64.
Rotl64(a, n) ==
    <<RotByte(a, n, 0), RotByte(a, n, 1), RotByte(a, n, 2), RotByte(a, n, 3),
      RotByte(a, n, 4), RotByte(a, n, 5), RotByte(a, n, 6), RotByte(a, n, 7)>>

\* The carry into byte i of a + b.
RECURSIVE Carry(_, _, _)
Carry(a, b, i) ==
    IF i = 0 THEN 0
    ELSE (At(a, i - 1) + At(b, i - 1) + Carry(a, b, i - 1)) \div 256

\* Byte i of a + b.
AddByte(a, b, i) == (At(a, i) + At(b, i) + Carry(a, b, i)) % 256

\* a + b on uint64, wrapping at 2^64.
Add64(a, b) ==
    <<AddByte(a, b, 0), AddByte(a, b, 1), AddByte(a, b, 2), AddByte(a, b, 3),
      AddByte(a, b, 4), AddByte(a, b, 5), AddByte(a, b, 6), AddByte(a, b, 7)>>

----------------------------------------------------------------------------
(* SipHash-2-4, the keyed 64-bit function Encode and Decode call as        *)
(* siphash.Hash(k0, k1, msg).  msg is a function 0..n-1 -> byte.           *)

SipC0 == U64BE(<<\h73, \h6f, \h6d, \h65, \h70, \h73, \h65, \h75>>)
SipC1 == U64BE(<<\h64, \h6f, \h72, \h61, \h6e, \h64, \h6f, \h6d>>)
SipC2 == U64BE(<<\h6c, \h79, \h67, \h65, \h6e, \h65, \h72, \h61>>)
SipC3 == U64BE(<<\h74, \h65, \h64, \h62, \h79, \h74, \h65, \h73>>)

\* The first half of a SipRound on the state v = <<v0, v1, v2, v3>>:
\*   v0 += v1; v1 = rotl(v1, 13); v1 ^= v0; v0 = rotl(v0, 32)
\*   v2 += v3; v3 = rotl(v3, 16); v3 ^= v2
SipHalf1(v) ==
    CASE Len(v) = 4 ->
        <<Rotl64(Add64(v[1], v[2]), 32),
          Xor64(Rotl64(v[2], 13), Add64(v[1], v[2])),
          Add64(v[3], v[4]),
          Xor64(Rotl64(v[4], 16), Add64(v[3], v[4]))>>

\* The second half:
\*   v0 += v3; v3 = rotl(v3, 21); v3 ^= v0
\*   v2 += v1; v1 = rotl(v1, 17); v1 ^= v2; v2 = rotl(v2, 32)
SipHalf2(v) ==
    CASE Len(v) = 4 ->
        <<Add64(v[1], v[4]),
          Xor64(Rotl64(v[2], 17), Add64(v[3], v[2])),
          Rotl64(Add64(v[3], v[2]), 32),
          Xor64(Rotl64(v[4], 21), Add64(v[1], v[4]))>>

SipRound(v) == SipHalf2(SipHalf1(v))

\* v3 ^= m
SipXorV3(v, m) == <<v[1], v[2], v[3], Xor64(v[4], m)>>

\* v0 ^= m
SipXorV0(v, m) == <<Xor64(v[1], m), v[2], v[3], v[4]>>

\* Absorbing one 64-bit word m: v3 ^= m, two rounds, v0 ^= m.
SipCompress(v, m) == SipXorV0(SipRound(SipRound(SipXorV3(v, m))), m)

\* The little-endian word of msg's bytes at off..off+7.
SipWord(msg, off) ==
    <<msg[off], msg[off + 1], msg[off + 2], msg[off + 3],
      msg[off + 4], msg[off + 5], msg[off + 6], msg[off + 7]>>

\* Byte i (0..6) of the last word: a byte left over past the whole words, or 0.
SipTail(msg, n, i) ==
    IF 8 * (n \div 8) + i < n THEN msg[8 * (n \div 8) + i] ELSE 0

\* The last word: the bytes left over, and the length in the top byte.
SipLast(msg, n) ==
    <<SipTail(msg, n, 0), SipTail(msg, n, 1), SipTail(msg, n, 2),
      SipTail(msg, n, 3), SipTail(msg, n, 4), SipTail(msg, n, 5),
      SipTail(msg, n, 6), n % 256>>

RECURSIVE SipBlocks(_, _, _, _)
SipBlocks(v, msg, b, nblocks) ==
    IF b = nblocks THEN v
    ELSE SipBlocks(SipCompress(v, SipWord(msg, 8 * b)), msg, b + 1, nblocks)

\* The initial state: the key halves xored with the four constants.
SipInit(k0, k1) ==
    <<Xor64(k0, SipC0), Xor64(k1, SipC1), Xor64(k0, SipC2), Xor64(k1, SipC3)>>

\* v2 ^= 0xff
SipXorV2(v) == <<v[1], v[2], Xor64(v[3], U64(\hff)), v[4]>>

\* v0 ^ v1 ^ v2 ^ v3
SipFold(v) == Xor64(Xor64(v[1], v[2]), Xor64(v[3], v[4]))

\* Finalization: v2 ^= 0xff, four rounds, the four words xored.
SipFinal(v) == SipFold(SipRound(SipRound(SipRound(SipRound(SipXorV2(v))))))

\* siphash.Hash(k0, k1, msg) for a message of n bytes.
Hash(k0, k1, msg, n) ==
    SipFinal(SipCompress(SipBlocks(SipInit(k0, k1), msg, 0, n \div 8),
                         SipLast(msg, n)))

----------------------------------------------------------------------------
(* The helpers of uuid47.go.                                               *)

\* rd48be: the 48-bit big-endian value of src[0..5].
\* rd48be shifting byte 0 by 32 in place of 40.
rd48be_ShiftTypo(src) ==
    Or64(Or64(Or64(Shl64(U64(src[0]), 32), Shl64(U64(src[1]), 32)),
              Or64(Shl64(U64(src[2]), 24), Shl64(U64(src[3]), 16))),
         Or64(Shl64(U64(src[4]), 8), U64(src[5])))

rd48be(src) ==
    Or64(Or64(Or64(Shl64(U64(src[0]), 40), Shl64(U64(src[1]), 32)),
              Or64(Shl64(U64(src[2]), 24), Shl64(U64(src[3]), 16))),
         Or64(Shl64(U64(src[4]), 8), U64(src[5])))

\* wr48be: dst with v48 written big-endian into dst[0..5].
\* wr48be writing the least significant byte first.
wr48be_LittleEndian(dst, v48) ==
    [dst EXCEPT ![0] = ToByte(v48),
                ![1] = ToByte(Shr64(v48, 8)),
                ![2] = ToByte(Shr64(v48, 16)),
                ![3] = ToByte(Shr64(v48, 24)),
                ![4] = ToByte(Shr64(v48, 32)),
                ![5] = ToByte(Shr64(v48, 40))]

wr48be(dst, v48) ==
    [dst EXCEPT ![0] = ToByte(Shr64(v48, 40)),
                ![1] = ToByte(Shr64(v48, 32)),
                ![2] = ToByte(Shr64(v48, 24)),
                ![3] = ToByte(Shr64(v48, 16)),
                ![4] = ToByte(Shr64(v48, 8)),
                ![5] = ToByte(v48)]

\* buildSipInputFromV7: [low nibble of b6][b7][b8 & 0x3F][b9..b15].
\* buildSipInputFromV7 keeping the version nibble in byte 0 of the message.
buildSipInputFromV7_Unmasked(u) ==
    [i \in 0..9 |->
        IF i = 0 THEN u[6]
        ELSE IF i = 1 THEN u[7]
        ELSE IF i = 2 THEN And8(u[8], \h3F)
        ELSE u[i + 6]]

\* buildSipInputFromV7 keeping the variant bits in byte 2 of the message.
buildSipInputFromV7_KeepVariant(u) ==
    [i \in 0..9 |->
        IF i = 0 THEN And8(u[6], \h0F)
        ELSE IF i = 1 THEN u[7]
        ELSE IF i = 2 THEN u[8]
        ELSE u[i + 6]]

\* buildSipInputFromV7 copying from byte 8 on: copy(msg[3:], u[8:]).
buildSipInputFromV7_ShiftedCopy(u) ==
    [i \in 0..9 |->
        IF i = 0 THEN And8(u[6], \h0F)
        ELSE IF i = 1 THEN u[7]
        ELSE IF i = 2 THEN And8(u[8], \h3F)
        ELSE u[i + 5]]

buildSipInputFromV7(u) ==
    [i \in 0..9 |->
        IF i = 0 THEN And8(u[6], \h0F)
        ELSE IF i = 1 THEN u[7]
        ELSE IF i = 2 THEN And8(u[8], \h3F)
        ELSE u[i + 6]]

\* setVersion: u[6] = (u[6] & 0x0F) | ((ver & 0x0F) << 4).
\* setVersion dropping the low nibble of byte 6.
setVersion_Clobber(u, ver) == [u EXCEPT ![6] = Shl8(And8(ver, \h0F), 4)]

\* setVersion leaving the bits of the old version nibble set.
setVersion_KeepOld(u, ver) == [u EXCEPT ![6] = Or8(u[6], Shl8(And8(ver, \h0F), 4))]

setVersion(u, ver) ==
    [u EXCEPT ![6] = Or8(And8(u[6], \h0F), Shl8(And8(ver, \h0F), 4))]

\* setVariantRFC4122: u[8] = (u[8] & 0x3F) | 0x80.
\* setVariantRFC4122 setting bit 7 of byte 8 and leaving bit 6.
setVariantRFC4122_NoClear(u) == [u EXCEPT ![8] = Or8(u[8], \h80)]

setVariantRFC4122(u) ==
    [u EXCEPT ![8] = Or8(And8(u[8], \h3F), \h80)]

\* The constant 0x0000FFFFFFFFFFFF.
Mask48Const == U64BE(<<\h00, \h00, \hFF, \hFF, \hFF, \hFF, \hFF, \hFF>>)

\* mask48 := siphash.Hash(key.K0, key.K1, sipMsg[:]) & 0x0000FFFFFFFFFFFF
\* mask48 keyed with K0 in both halves.
mask48_K0Twice(uuid, key) ==
    And64(Hash(key.K0, key.K0, buildSipInputFromV7(uuid), 10), Mask48Const)

mask48(uuid, key) ==
    And64(Hash(key.K0, key.K1, buildSipInputFromV7(uuid), 10), Mask48Const)

\* Encode: the v4 facade of uuid under key.
\*   mask48 := siphash.Hash(...) & 0x0000FFFFFFFFFFFF; ts48 := rd48be(uuid[:6])
\*   encTS := ts48 ^ mask48; out := uuid; wr48be(out[:6], encTS)
\*   setVersion(&out, 4); setVariantRFC4122(&out); return out
Encode(uuid, key) ==
    setVariantRFC4122(
        setVersion(wr48be(uuid, Xor64(rd48be(uuid), mask48(uuid, key))), 4))

\* Decode: the v7 identifier of the facade uuid under key.
\*   mask48 := siphash.Hash(...) & 0x0000FFFFFFFFFFFF; encTS := rd48be(uuid[:6])
\*   ts48 := encTS ^ mask48; out := uuid; wr48be(out[:6], ts48)
\*   setVersion(&out, 7); setVariantRFC4122(&out); return out
\* Decode returning anything but a version-4 facade as it came.
Decode_Validating(uuid, key) ==
    IF And8(Shr8(uuid[6], 4), \h0F) # 4 THEN uuid
    ELSE setVariantRFC4122(
             setVersion(wr48be(uuid, Xor64(rd48be(uuid), mask48(uuid, key))), 7))

Decode(uuid, key) ==
    setVariantRFC4122(
        setVersion(wr48be(uuid, Xor64(rd48be(uuid), mask48(uuid, key))), 7))

----------------------------------------------------------------------------
(* The text codec of uuid47.go.  A character is its ASCII code.            *)

ChHyphen == 45
Ch0 == 48
Ch9 == 57
ChUpperA == 65
ChUpperF == 70
ChLowerA == 97
ChLowerF == 102
UUIDStrLen == 36

\* const hexdigits = "0123456789abcdef"; hexdigits[n] is HexDigits[n + 1].
HexDigits ==
    <<48, 49, 50, 51, 52, 53, 54, 55, 56, 57, 97, 98, 99, 100, 101, 102>>

\* The length of a string s, a function 0..len-1 -> character.
StrLen(s) == Cardinality(DOMAIN s)

\* var u UUID: the zero value.
ZeroUUID == [i \in 0..15 |-> 0]

\* hexNibble: the 4-bit value of an ASCII hex character, and whether it is one.
\* hexNibble without the offset 10 of the lower-case letters.
hexNibble_LowerNoOffset(c) ==
    IF c >= Ch0 /\ c <= Ch9 THEN [v |-> c - Ch0, ok |-> TRUE]
    ELSE IF c >= ChLowerA /\ c <= ChLowerF THEN [v |-> c - ChLowerA, ok |-> TRUE]
    ELSE IF c >= ChUpperA /\ c <= ChUpperF THEN [v |-> c - ChUpperA + 10, ok |-> TRUE]
    ELSE [v |-> 0, ok |-> FALSE]

\* hexNibble without the upper-case letters.
hexNibble_NoUpper(c) ==
    IF c >= Ch0 /\ c <= Ch9 THEN [v |-> c - Ch0, ok |-> TRUE]
    ELSE IF c >= ChLowerA /\ c <= ChLowerF THEN [v |-> c - ChLowerA + 10, ok |-> TRUE]
    ELSE [v |-> 0, ok |-> FALSE]

hexNibble(c) ==
    IF c >= Ch0 /\ c <= Ch9 THEN [v |-> c - Ch0, ok |-> TRUE]
    ELSE IF c >= ChLowerA /\ c <= ChLowerF
         THEN [v |-> c - ChLowerA + 10, ok |-> TRUE]
    ELSE IF c >= ChUpperA /\ c <= ChUpperF
         THEN [v |-> c - ChUpperA + 10, ok |-> TRUE]
    ELSE [v |-> 0, ok |-> FALSE]

\* How a call of Parse ends: by returning with a nil error or with
\* ErrInvalidUUID, or by the run-time panic of an index out of range.
ErrNil == "nil"
ErrInvalidUUID == "invalid UUID format"
PanicIndex == "panic: index out of range"

\* The loop of Parse from index i of s, j bytes of u written so far.
RECURSIVE ParseLoop(_, _, _, _)
ParseLoop(s, i, j, u) ==
    IF ~(i < UUIDStrLen) THEN [u |-> u, err |-> ErrNil]
    ELSE IF i >= StrLen(s) THEN [u |-> u, err |-> PanicIndex]
    ELSE IF s[i] = ChHyphen THEN ParseLoop(s, i + 1, j, u)
    ELSE IF ~hexNibble(s[i]).ok THEN [u |-> u, err |-> ErrInvalidUUID]
    ELSE IF i + 1 >= StrLen(s) THEN [u |-> u, err |-> PanicIndex]
    ELSE IF ~hexNibble(s[i + 1]).ok THEN [u |-> u, err |-> ErrInvalidUUID]
    ELSE IF j > 15 THEN [u |-> u, err |-> PanicIndex]
    ELSE ParseLoop(s, i + 2, j + 1,
                   [u EXCEPT ![j] = Or8(Shl8(hexNibble(s[i]).v, 4),
                                        hexNibble(s[i + 1]).v)])

\* Parse: the UUID and the error returned for the string s.
Parse(s) ==
    IF StrLen(s) # UUIDStrLen THEN [u |-> ZeroUUID, err |-> ErrInvalidUUID]
    ELSE IF s[8] # ChHyphen \/ s[13] # ChHyphen
            \/ s[18] # ChHyphen \/ s[23] # ChHyphen
         THEN [u |-> ZeroUUID, err |-> ErrInvalidUUID]
    ELSE ParseLoop(s, 0, 0, ZeroUUID)

\* buf[j] = hexdigits[(b>>4)&0xF]; buf[j+1] = hexdigits[b&0xF]
PutHex(buf, j, b) ==
    [buf EXCEPT ![j] = HexDigits[And8(Shr8(b, 4), \h0F) + 1],
                ![j + 1] = HexDigits[And8(b, \h0F) + 1]]

\* buf[j] = '-'
PutHyphen(buf, j) == [buf EXCEPT ![j] = ChHyphen]

\* The loop of UUID.String from byte i of u, j characters of buf written.
RECURSIVE StringLoop(_, _, _, _)
StringLoop(u, i, j, buf) ==
    IF i = 16 THEN buf
    ELSE IF i = 4 \/ i = 6 \/ i = 8 \/ i = 10
         THEN StringLoop(u, i + 1, j + 3,
                         PutHex(PutHyphen(buf, j), j + 1, u[i]))
    ELSE StringLoop(u, i + 1, j + 2, PutHex(buf, j, u[i]))

\* UUID.String: the canonical text of u.
String(u) == StringLoop(u, 0, 0, [c \in 0..(UUIDStrLen - 1) |-> 0])

----------------------------------------------------------------------------
(* Key generation.                                                         *)

\* Key{}
ZeroKey == [K0 |-> U64(0), K1 |-> U64(0)]

\* binary.LittleEndian.Uint64(buf[off : off+8])
LittleEndianUint64(buf, off) ==
    <<buf[off], buf[off + 1], buf[off + 2], buf[off + 3],
      buf[off + 4], buf[off + 5], buf[off + 6], buf[off + 7]>>

\* NewRandomKey returning a key and no error whatever the source reported.
NewRandomKey_IgnoreErr(buf, rerr) ==
    [key |-> [K0 |-> LittleEndianUint64(buf, 0),
              K1 |-> LittleEndianUint64(buf, 8)],
     err |-> ErrNil]

\* NewRandomKey after rand.Read(buf[:]) left buf and returned rerr.
NewRandomKey(buf, rerr) ==
    IF rerr # ErrNil THEN [key |-> ZeroKey, err |-> rerr]
    ELSE [key |-> [K0 |-> LittleEndianUint64(buf, 0),
                   K1 |-> LittleEndianUint64(buf, 8)],
          err |-> ErrNil]

\* No read of the random source was made.
NoRead == [buf |-> ZeroUUID, n |-> 0, err |-> ErrNil]

----------------------------------------------------------------------------
(* State.                                                                  *)
(*   id, trace     a caller applying Encode and Decode one after the other *)
(*                 to the identifier id: trace lists the calls made, each  *)
(*                 with its key, its argument and its result.              *)
(*   txt, val,     a caller of the text codec: the string and the UUID it  *)
(*   err, tlog     holds, the error of its last Parse, and the calls made. *)
(*   mem, callerKey, pc, frame, ret                                        *)
(*                 goroutines calling Encode and Decode on one identifier  *)
(*                 and key: the memory cells holding UUID values, the      *)
(*                 caller's key, and each goroutine's position, locals and *)
(*                 result.                                                 *)
(*   ksrc, kret, kcalls                                                    *)
(*                 a caller of NewRandomKey: what the random source        *)
(*                 delivered to the last call, what the call returned, and *)
(*                 the number of calls made.                               *)

VARIABLES id, trace, txt, val, err, tlog, mem, callerKey, pc, frame, ret,
          ksrc, kret, kcalls

transformVars == <<id, trace>>
textVars == <<txt, val, err, tlog>>
concVars == <<mem, callerKey, pc, frame, ret>>
keyVars == <<ksrc, kret, kcalls>>
vars ==
    <<id, trace, txt, val, err, tlog, mem, callerKey, pc, frame, ret,
      ksrc, kret, kcalls>>

\* The number of NewRandomKey calls the caller makes.
MaxKeyCalls == 2

\* The number of Encode and Decode calls the caller makes in a row.
MaxOps == 2

\* The number of Parse and String calls the caller makes in a row.
MaxTextOps == 3

\* The number of goroutines calling Encode and Decode at once.
NumCallers == 2

\* Key{K0: 0x0123456789abcdef, K1: 0xfedcba9876543210}: the tests' key.
TestKey ==
    [K0 |-> U64BE(<<\h01, \h23, \h45, \h67, \h89, \hab, \hcd, \hef>>),
     K1 |-> U64BE(<<\hfe, \hdc, \hba, \h98, \h76, \h54, \h32, \h10>>)]

\* Key{K0: key.K0 ^ 0xdeadbeef, K1: key.K1 ^ 0x1337}: the tests' wrong key.
WrongKey ==
    [K0 |-> Xor64(TestKey.K0,
                  U64BE(<<\h00, \h00, \h00, \h00, \hde, \had, \hbe, \hef>>)),
     K1 |-> Xor64(TestKey.K1,
                  U64BE(<<\h00, \h00, \h00, \h00, \h00, \h00, \h13, \h37>>))]

\* A key that differs from the tests' key in K1 alone.
OtherK1Key == [K0 |-> TestKey.K0, K1 |-> WrongKey.K1]

Keys == {TestKey, WrongKey, OtherK1Key}

\* The identifier with the 6 timestamp bytes ts, version nibble ver, variant
\* bits var and payload pay = <<low nibble of byte 6, byte 7, low 6 bits of
\* byte 8, bytes 9..15>>.
MkUUID(ts, ver, var, pay) ==
    [i \in 0..15 |->
        IF i < 6 THEN ts[i + 1]
        ELSE IF i = 6 THEN 16 * ver + pay[1]
        ELSE IF i = 7 THEN pay[2]
        ELSE IF i = 8 THEN 64 * var + pay[3]
        ELSE pay[i - 5]]

Timestamps ==
    { <<\h00, \h00, \h00, \h00, \h00, \h00>>,
      <<\h01, \h8f, \h2d, \h9f, \h9a, \h2a>>,
      <<\hff, \hff, \hff, \hff, \hff, \hff>> }

\* <<version nibble, variant bits>>: a v7 and a v4 identifier of the RFC
\* variant, and two that are neither.
Tags == { <<7, 2>>, <<4, 2>>, <<0, 0>>, <<15, 3>> }

Payloads ==
    { <<\h00, \h00, \h00, \h00, \h00, \h00, \h00, \h00, \h00, \h00>>,
      <<\h0d, \hef, \h0c, \h3f, \h7b, \h1a, \h2c, \h4d, \h5e, \h6f>> }

\* The identifiers the callers start from.
Ids ==
    { MkUUID(ts, tag[1], tag[2], pay) :
        ts \in Timestamps, tag \in Tags, pay \in Payloads }

\* The indices of the four hyphens of the 8-4-4-4-12 form.
HyphenAt == {8, 13, 18, 23}

\* The number of hex digits before index p of the 36-character form.
DigitsBefore(p) == p - Cardinality({h \in HyphenAt : h < p})

\* The character of the hex digit n, in lower or in upper case.
HexChar(n, upper) ==
    IF n < 10 THEN 48 + n ELSE IF upper THEN 55 + n ELSE 87 + n

\* The 36-character string of the 32 hex digits ds; digit k is written in
\* upper case when uc[k].
MkString(ds, uc) ==
    [p \in 0..35 |->
        IF p \in HyphenAt THEN 45
        ELSE HexChar(ds[DigitsBefore(p) + 1], uc[DigitsBefore(p) + 1])]

DigitSeqs ==
    { [k \in 1..32 |-> 0],
      [k \in 1..32 |-> 15],
      [k \in 1..32 |-> (k + 9) % 16],
      <<0, 1, 8, 15, 2, 13, 9, 15, 9, 10, 2, 10, 7, 13, 14, 15,
        8, 12, 3, 15, 7, 11, 1, 10, 2, 12, 4, 13, 5, 14, 6, 15>> }

\* All lower case, all upper case, and the two alternations.
CasePatterns ==
    { [k \in 1..32 |-> FALSE], [k \in 1..32 |-> TRUE],
      [k \in 1..32 |-> k % 2 = 0], [k \in 1..32 |-> k % 2 = 1] }

\* Strings of the 8-4-4-4-12 form.
FormedStrings == { MkString(ds, uc) : ds \in DigitSeqs, uc \in CasePatterns }

\* The strings the malformed ones are made from.
EditBases ==
    { MkString([k \in 1..32 |-> (k + 9) % 16], [k \in 1..32 |-> FALSE]),
      MkString([k \in 1..32 |-> 15], [k \in 1..32 |-> TRUE]) }

\* '-', and the characters next to the three ranges of hex digits:
\* '/' ':' '@' 'G' '`' 'g'.
EditChars == {45, 47, 58, 64, 71, 96, 103}

\* One character replaced.
OneEdit == { [s EXCEPT ![p] = c] : s \in EditBases, p \in 0..35, c \in EditChars }

\* Two characters replaced by hyphens.
TwoHyphens ==
    { [s EXCEPT ![p] = 45, ![q] = 45] : s \in EditBases, p \in 0..35, q \in 0..35 }

\* A string cut short or one character too long.
WrongLength ==
    { [p \in 0..(n - 1) |-> s[p % 36]] : s \in EditBases, n \in {0, 1, 35, 37} }

\* The strings handed to Parse.
Strings == FormedStrings \cup OneEdit \cup TwoHyphens \cup WrongLength

\* The memory cells that hold a UUID: the caller's variable, and each
\* goroutine's parameter uuid and local out.
CallerCell == <<"caller", 0>>
ParamCell(g) == <<"uuid", g>>
\* out as a reference to the caller's variable.
OutCell_Shared(g) == <<"caller", 0>>

OutCell(g) == <<"out", g>>
Callers == 1..NumCallers
Cells == {CallerCell} \cup {ParamCell(g) : g \in Callers}
             \cup {OutCell(g) : g \in Callers}

\* The identifiers and the keys the goroutines share.
ConcKeys == {TestKey}

ConcIds ==
    { MkUUID(<<\h01, \h8f, \h2d, \h9f, \h9a, \h2a>>, 7, 2,
             <<\h0d, \hef, \h0c, \h3f, \h7b, \h1a, \h2c, \h4d, \h5e, \h6f>>),
      MkUUID(<<\h24, \h63, \hc7, \h80, \h7f, \hca>>, 4, 2,
             <<\h0d, \hef, \h0c, \h3f, \h7b, \h1a, \h2c, \h4d, \h5e, \h6f>>) }

\* The variables of a part of the model that a specification does not use.
TransformIdle == id = ZeroUUID /\ trace = <<>>
TextIdle == txt = <<>> /\ val = ZeroUUID /\ err = ErrNil /\ tlog = <<>>
ConcIdle ==
    mem = <<>> /\ callerKey = TestKey /\ pc = <<>> /\ frame = <<>> /\ ret = <<>>
KeyIdle == ksrc = NoRead /\ kret = [key |-> ZeroKey, err |-> ErrNil] /\ kcalls = 0

----------------------------------------------------------------------------
(* A caller applying Encode and Decode one after the other.                *)

\* The value the next call is applied to.
cur == IF trace = <<>> THEN id ELSE trace[Len(trace)].out

Init ==
    /\ id \in Ids
    /\ trace = <<>>
    /\ TextIdle
    /\ ConcIdle
    /\ KeyIdle

\* facade := Encode(cur, key)
EncodeCall(key) ==
    /\ Len(trace) < MaxOps
    /\ trace' = Append(trace, [op |-> "Encode", key |-> key, in |-> cur,
                               out |-> Encode(cur, key)])
    /\ UNCHANGED <<id, textVars, keyVars, concVars>>

\* back := Decode(cur, key)
DecodeCall(key) ==
    /\ Len(trace) < MaxOps
    /\ trace' = Append(trace, [op |-> "Decode", key |-> key, in |-> cur,
                               out |-> Decode(cur, key)])
    /\ UNCHANGED <<id, textVars, keyVars, concVars>>

Next ==
    \/ \E key \in Keys : EncodeCall(key)
    \/ \E key \in Keys : DecodeCall(key)

Spec == Init /\ [][Next]_vars

----------------------------------------------------------------------------
(* A caller of the text codec.                                             *)

TextInit ==
    /\ \/ txt \in Strings /\ val = ZeroUUID
       \/ txt = <<>> /\ val \in Ids
    /\ err = ErrNil
    /\ tlog = <<>>
    /\ TransformIdle
    /\ ConcIdle
    /\ KeyIdle

\* val, err = Parse(txt).  A panic ends the program: nothing is assigned.
ParseCall ==
    /\ Len(tlog) < MaxTextOps
    /\ err # PanicIndex
    /\ tlog' = Append(tlog, [op |-> "Parse", s |-> txt, u |-> Parse(txt).u,
                             err |-> Parse(txt).err])
    /\ err' = Parse(txt).err
    /\ val' = IF Parse(txt).err = PanicIndex THEN val ELSE Parse(txt).u
    /\ UNCHANGED <<txt, transformVars, concVars, keyVars>>

\* txt = val.String()
StringCall ==
    /\ Len(tlog) < MaxTextOps
    /\ err # PanicIndex
    /\ tlog' = Append(tlog, [op |-> "String", s |-> String(val), u |-> val,
                             err |-> ErrNil])
    /\ txt' = String(val)
    /\ UNCHANGED <<val, err, transformVars, concVars, keyVars>>

TextNext == ParseCall \/ StringCall

TextSpec == TextInit /\ [][TextNext]_vars

----------------------------------------------------------------------------
(* Goroutines calling Encode and Decode on the caller's identifier and key *)
(* at once.  A goroutine takes one statement of the function at a time;    *)
(* the parameters are copies made at the call.                             *)

Zero64 == U64(0)

\* The locals of a call before its first statement.
NewFrame(op, key) ==
    [op |-> op, key |-> key, sipMsg |-> [i \in 0..9 |-> 0], mask48 |-> Zero64,
     ts48 |-> Zero64, encTS |-> Zero64]

ConcInit ==
    /\ id \in ConcIds
    /\ callerKey \in ConcKeys
    /\ mem = [c \in Cells |-> IF c = CallerCell THEN id ELSE ZeroUUID]
    /\ pc = [g \in Callers |-> "idle"]
    /\ frame = [g \in Callers |-> NewFrame("none", callerKey)]
    /\ ret = [g \in Callers |-> ZeroUUID]
    /\ trace = <<>>
    /\ TextIdle
    /\ KeyIdle

\* go Encode(id, key) or go Decode(id, key): the arguments are copied.
Call(g, op) ==
    /\ pc[g] = "idle"
    /\ mem' = [mem EXCEPT ![ParamCell(g)] = mem[CallerCell]]
    /\ frame' = [frame EXCEPT ![g] = NewFrame(op, callerKey)]
    /\ pc' = [pc EXCEPT ![g] = "sipMsg"]
    /\ UNCHANGED <<id, trace, textVars, keyVars, callerKey, ret>>

\* sipMsg := buildSipInputFromV7(uuid)
StepSipMsg(g) ==
    /\ pc[g] = "sipMsg"
    /\ frame' = [frame EXCEPT
                    ![g].sipMsg = buildSipInputFromV7(mem[ParamCell(g)])]
    /\ pc' = [pc EXCEPT ![g] = "mask48"]
    /\ UNCHANGED <<id, trace, textVars, keyVars, callerKey, mem, ret>>

\* mask48 := siphash.Hash(key.K0, key.K1, sipMsg[:]) & 0x0000FFFFFFFFFFFF
StepMask48(g) ==
    /\ pc[g] = "mask48"
    /\ frame' = [frame EXCEPT
                    ![g].mask48 = And64(Hash(frame[g].key.K0, frame[g].key.K1,
                                             frame[g].sipMsg, 10),
                                        Mask48Const)]
    /\ pc' = [pc EXCEPT ![g] = "ts48"]
    /\ UNCHANGED <<id, trace, textVars, keyVars, callerKey, mem, ret>>

\* ts48 := rd48be(uuid[0:6])  (encTS in Decode)
StepTs48(g) ==
    /\ pc[g] = "ts48"
    /\ frame' = [frame EXCEPT ![g].ts48 = rd48be(mem[ParamCell(g)])]
    /\ pc' = [pc EXCEPT ![g] = "encTS"]
    /\ UNCHANGED <<id, trace, textVars, keyVars, callerKey, mem, ret>>

\* encTS := ts48 ^ mask48  (ts48 := encTS ^ mask48 in Decode)
StepEncTS(g) ==
    /\ pc[g] = "encTS"
    /\ frame' = [frame EXCEPT ![g].encTS = Xor64(frame[g].ts48, frame[g].mask48)]
    /\ pc' = [pc EXCEPT ![g] = "out"]
    /\ UNCHANGED <<id, trace, textVars, keyVars, callerKey, mem, ret>>

\* out := uuid
StepOut(g) ==
    /\ pc[g] = "out"
    /\ mem' = [mem EXCEPT ![OutCell(g)] = mem[ParamCell(g)]]
    /\ pc' = [pc EXCEPT ![g] = "wr48be"]
    /\ UNCHANGED <<id, trace, textVars, keyVars, callerKey, frame, ret>>

\* wr48be(out[0:6], encTS)
StepWr48be(g) ==
    /\ pc[g] = "wr48be"
    /\ mem' = [mem EXCEPT ![OutCell(g)] = wr48be(mem[OutCell(g)], frame[g].encTS)]
    /\ pc' = [pc EXCEPT ![g] = "setVersion"]
    /\ UNCHANGED <<id, trace, textVars, keyVars, callerKey, frame, ret>>

\* setVersion(&out, 4)  (7 in Decode)
StepSetVersion(g) ==
    /\ pc[g] = "setVersion"
    /\ mem' = [mem EXCEPT ![OutCell(g)] =
                  setVersion(mem[OutCell(g)],
                             IF frame[g].op = "Encode" THEN 4 ELSE 7)]
    /\ pc' = [pc EXCEPT ![g] = "setVariant"]
    /\ UNCHANGED <<id, trace, textVars, keyVars, callerKey, frame, ret>>

\* setVariantRFC4122(&out)
StepSetVariant(g) ==
    /\ pc[g] = "setVariant"
    /\ mem' = [mem EXCEPT ![OutCell(g)] = setVariantRFC4122(mem[OutCell(g)])]
    /\ pc' = [pc EXCEPT ![g] = "return"]
    /\ UNCHANGED <<id, trace, textVars, keyVars, callerKey, frame, ret>>

\* return out
StepReturn(g) ==
    /\ pc[g] = "return"
    /\ ret' = [ret EXCEPT ![g] = mem[OutCell(g)]]
    /\ pc' = [pc EXCEPT ![g] = "done"]
    /\ UNCHANGED <<id, trace, textVars, keyVars, callerKey, frame, mem>>

ConcNext ==
    \E g \in Callers :
        \/ Call(g, "Encode")
        \/ Call(g, "Decode")
        \/ StepSipMsg(g)
        \/ StepMask48(g)
        \/ StepTs48(g)
        \/ StepEncTS(g)
        \/ StepOut(g)
        \/ StepWr48be(g)
        \/ StepSetVersion(g)
        \/ StepSetVariant(g)
        \/ StepReturn(g)

ConcSpec == ConcInit /\ [][ConcNext]_vars

----------------------------------------------------------------------------
(* A caller of NewRandomKey.  rand.Read either fills the 16 bytes and      *)
(* returns no error, or returns an error having filled a prefix of them.   *)

\* The 16 bytes the source would deliver.
RandomBytes ==
    { [i \in 0..15 |-> (a * i + b) % 256] : a \in {0, 1, 17, 255}, b \in {1, 128, 255} }

\* The errors the source may report.
SourceErrors == {"entropy unavailable", "unexpected EOF"}

\* The numbers of bytes a failing read may have filled.
FilledOnError == {0, 8, 15}

\* var buf [16]byte with its first n bytes filled from bytes.
FillBuf(bytes, n) == [i \in 0..15 |-> IF i < n THEN bytes[i] ELSE 0]

KeyInit ==
    /\ KeyIdle
    /\ TransformIdle
    /\ TextIdle
    /\ ConcIdle

\* key, err := NewRandomKey(), the source delivering all 16 bytes.
NewRandomKeyOk(bytes) ==
    /\ kcalls < MaxKeyCalls
    /\ ksrc' = [buf |-> FillBuf(bytes, 16), n |-> 16, err |-> ErrNil]
    /\ kret' = NewRandomKey(FillBuf(bytes, 16), ErrNil)
    /\ kcalls' = kcalls + 1
    /\ UNCHANGED <<transformVars, textVars, concVars>>

\* key, err := NewRandomKey(), the source failing with e after n bytes.
NewRandomKeyFail(bytes, n, e) ==
    /\ kcalls < MaxKeyCalls
    /\ ksrc' = [buf |-> FillBuf(bytes, n), n |-> n, err |-> e]
    /\ kret' = NewRandomKey(FillBuf(bytes, n), e)
    /\ kcalls' = kcalls + 1
    /\ UNCHANGED <<transformVars, textVars, concVars>>

KeyNext ==
    \/ \E bytes \in RandomBytes : NewRandomKeyOk(bytes)
    \/ \E bytes \in RandomBytes, n \in FilledOnError, e \in SourceErrors :
          NewRandomKeyFail(bytes, n, e)

KeySpec == KeyInit /\ [][KeyNext]_vars

----------------------------------------------------------------------------
(* Vocabulary of the properties.                                           *)

\* int((u[6] >> 4) & 0x0F)
version(u) == And8(Shr8(u[6], 4), \h0F)

\* The top two bits of byte 8.
variant(u) == Shr8(u[8], 6)

\* A version-7 identifier of the RFC 4122 variant.
IsV7(u) == version(u) = 7 /\ variant(u) = 2

\* The 74 payload bits: the low nibble of byte 6, byte 7, the low 6 bits of
\* byte 8, bytes 9..15.
PayloadOf(u) ==
    <<u[6] % 16, u[7], u[8] % 64, u[9], u[10], u[11], u[12], u[13], u[14],
      u[15]>>

\* u with its version nibble replaced by ver.
WithVersion(u, ver) == [u EXCEPT ![6] = 16 * ver + (u[6] % 16)]

\* u with its variant bits replaced by 10.
WithVariant10(u) == [u EXCEPT ![8] = 128 + (u[8] % 64)]

\* The identifier 018f2d9f-9a2a-7def-8c3f-7b1a2c4d5e6f.
DemoV7 ==
    [i \in 0..15 |->
        <<\h01, \h8f, \h2d, \h9f, \h9a, \h2a, \h7d, \hef,
          \h8c, \h3f, \h7b, \h1a, \h2c, \h4d, \h5e, \h6f>>[i + 1]]

\* The 10-byte array of the bytes bs.
Bytes10(bs) == [i \in 0..9 |-> bs[i + 1]]

\* u with every bit of its version nibble and of its variant bits flipped.
OtherTag(u) ==
    [u EXCEPT ![6] = 16 * (15 - (u[6] \div 16)) + (u[6] % 16),
              ![8] = 64 * (3 - (u[8] \div 64)) + (u[8] % 64)]

\* Bytes 0..5, most significant first.
TimestampOf(u) == <<u[0], u[1], u[2], u[3], u[4], u[5]>>

\* The low 48 bits of a 64-bit value, most significant byte first.
Low48(h) == <<At(h, 5), At(h, 4), At(h, 3), At(h, 2), At(h, 1), At(h, 0)>>

\* The XOR of two 48-bit values, most significant byte first.
Xor48(a, b) ==
    <<Xor8(a[1], b[1]), Xor8(a[2], b[2]), Xor8(a[3], b[3]),
      Xor8(a[4], b[4]), Xor8(a[5], b[5]), Xor8(a[6], b[6])>>

\* The keyed 64-bit hash of the payload of u.
PayloadHash(u, key) == Hash(key.K0, key.K1, buildSipInputFromV7(u), 10)

\* 0-9, a-f, A-F.
IsHexDigit(c) == c \in (48..57) \cup (97..102) \cup (65..70)

\* 36 characters, '-' at indices 8, 13, 18 and 23, a hex digit elsewhere.
WellFormed(s) ==
    /\ StrLen(s) = 36
    /\ \A p \in 0..35 : IF p \in HyphenAt THEN s[p] = 45 ELSE IsHexDigit(s[p])

\* Well formed, with no upper-case digit.
CanonicalLower(s) == WellFormed(s) /\ \A p \in 0..35 : s[p] \notin 65..70

\* s with its upper-case letters in lower case.
ToLower(s) == [p \in DOMAIN s |-> IF s[p] \in 65..90 THEN s[p] + 32 ELSE s[p]]

\* s with the case of each letter changed.
SwapCase(s) ==
    [p \in DOMAIN s |->
        IF s[p] \in 65..90 THEN s[p] + 32
        ELSE IF s[p] \in 97..122 THEN s[p] - 32 ELSE s[p]]

\* The result of the call of a goroutine, had it run alone.
Alone(g) ==
    IF frame[g].op = "Encode" THEN Encode(id, callerKey)
    ELSE Decode(id, callerKey)

----------------------------------------------------------------------------
(* Properties of Encode and Decode (specification Spec).                   *)

\* C1, as stated: for every 128-bit value x, whatever its version nibble and
\* variant bits, and every key k, Decode(Encode(x, k), k) = x.
C1_InversionAllValues ==
    \A i \in 1..(Len(trace) - 1) :
        (/\ trace[i].op = "Encode"
         /\ trace[i + 1].op = "Decode"
         /\ trace[i + 1].key = trace[i].key)
        => trace[i + 1].out = trace[i].in

\* C1, amended: for every x whose version nibble is 7 and whose variant bits
\* are 10, and every key k, Decode(Encode(x, k), k) = x.
C1_InversionV7 ==
    \A i \in 1..(Len(trace) - 1) :
        (/\ trace[i].op = "Encode"
         /\ trace[i + 1].op = "Decode"
         /\ trace[i + 1].key = trace[i].key
         /\ IsV7(trace[i].in))
        => trace[i + 1].out = trace[i].in

\* A v7 identifier was encoded to a facade with another timestamp field and
\* decoded with the same key.
C1_Witness ==
    /\ Len(trace) = 2
    /\ trace[1].op = "Encode"
    /\ trace[2].op = "Decode"
    /\ trace[2].key = trace[1].key
    /\ IsV7(trace[1].in)
    /\ TimestampOf(trace[1].out) # TimestampOf(trace[1].in)
    /\ trace[2].out = id

\* C2: the 74 payload bits of Encode(x, k) and of Decode(x, k) are those of
\* x; only bytes 0-5, the high nibble of byte 6 and the top two bits of
\* byte 8 may differ.
C2_PayloadPreserved ==
    \A i \in 1..Len(trace) : PayloadOf(trace[i].out) = PayloadOf(trace[i].in)

\* An identifier with payload bits set, version nibble 15 and variant bits
\* 11 went through Encode and then Decode, each changing the timestamp
\* field and Encode the version and variant bits.
C2_Witness ==
    /\ Len(trace) = 2
    /\ trace[1].op = "Encode"
    /\ trace[2].op = "Decode"
    /\ version(id) = 15
    /\ variant(id) = 3
    /\ PayloadOf(id)[1] # 0
    /\ PayloadOf(id)[3] # 0
    /\ TimestampOf(trace[1].out) # TimestampOf(id)
    /\ TimestampOf(trace[2].out) # TimestampOf(trace[1].out)
    /\ version(trace[1].out) # version(id)
    /\ PayloadOf(trace[2].out) = PayloadOf(id)

\* C3: Encode(x, k) has version nibble 4 and variant bits 10, Decode(x, k)
\* has version nibble 7 and variant bits 10, whatever x carried.
C3_VersionStamped ==
    \A i \in 1..Len(trace) :
        /\ trace[i].out[8] \div 64 = 2
        /\ trace[i].op = "Encode" => trace[i].out[6] \div 16 = 4
        /\ trace[i].op = "Decode" => trace[i].out[6] \div 16 = 7

\* Decode and then Encode were applied to an identifier that carried
\* version nibble 15 and variant bits 11.
C3_Witness ==
    /\ Len(trace) = 2
    /\ trace[1].op = "Decode"
    /\ trace[2].op = "Encode"
    /\ id[6] \div 16 = 15
    /\ id[8] \div 64 = 3
    /\ trace[2].out[6] \div 16 = 4

\* C4: bytes 0-5 of Encode(x, k) are bytes 0-5 of x XOR the low 48 bits of
\* hash(k.K0, k.K1, buildSipInputFromV7(x)); the bits of the hash above
\* bit 47 have no influence.
C4_TimestampMasked ==
    (trace # <<>> /\ trace[Len(trace)].op = "Encode")
    => TimestampOf(trace[Len(trace)].out)
         = Xor48(TimestampOf(trace[Len(trace)].in),
                 Low48(PayloadHash(trace[Len(trace)].in,
                                   trace[Len(trace)].key)))

\* Encode was applied with a hash whose two top bytes and whose low 48 bits
\* are not zero.
C4_Witness ==
    /\ trace # <<>>
    /\ trace[Len(trace)].op = "Encode"
    /\ At(PayloadHash(trace[Len(trace)].in, trace[Len(trace)].key), 7) # 0
    /\ At(PayloadHash(trace[Len(trace)].in, trace[Len(trace)].key), 6) # 0
    /\ TimestampOf(trace[Len(trace)].out) # TimestampOf(trace[Len(trace)].in)

\* C8: for a v7 identifier x of the RFC variant and keys k1 # k2,
\* Decode(Encode(x, k1), k2) # x whenever the 48-bit masks of the two keys
\* over the payload of x differ, and the result differs from x at most in
\* bytes 0-5.
C8_WrongKeyDivergence ==
    (/\ Len(trace) = 2
     /\ trace[1].op = "Encode"
     /\ trace[2].op = "Decode"
     /\ trace[1].key # trace[2].key
     /\ IsV7(id))
    => /\ Low48(PayloadHash(id, trace[1].key))
            # Low48(PayloadHash(id, trace[2].key))
          => trace[2].out # id
       /\ \A b \in 6..15 : trace[2].out[b] = id[b]

\* A v7 identifier was encoded with one key and decoded with a key that
\* differs in K1 alone; the masks differ and the timestamp field came back
\* changed.
C8_Witness ==
    /\ Len(trace) = 2
    /\ trace[1].op = "Encode"
    /\ trace[2].op = "Decode"
    /\ trace[1].key = TestKey
    /\ trace[2].key = OtherK1Key
    /\ IsV7(id)
    /\ Low48(PayloadHash(id, TestKey)) # Low48(PayloadHash(id, OtherK1Key))
    /\ TimestampOf(trace[2].out) # TimestampOf(id)

----------------------------------------------------------------------------
(* Properties of Parse and String (specification TextSpec).                *)

\* C5, as stated: Parse succeeds only if the string has 36 characters, '-'
\* at indices 8, 13, 18 and 23 and a hex digit at each other index; every
\* other string is rejected with ErrInvalidUUID.
C5_RejectsMalformed ==
    \A i \in 1..Len(tlog) :
        (tlog[i].op = "Parse" /\ tlog[i].err = ErrNil) => WellFormed(tlog[i].s)

\* C6, as stated: for every string Parse returns, with a nil error or with
\* ErrInvalidUUID; it reads no index at or beyond the length of the string
\* and writes no byte past byte 15.
C6_ParseTotal ==
    \A i \in 1..Len(tlog) :
        tlog[i].op = "Parse" => tlog[i].err \in {ErrNil, ErrInvalidUUID}

\* C7: Parse(x.String()) returns x and no error for every 16-byte x; for
\* every string s in canonical lower-case form Parse(s) succeeds and
\* Parse(s).String() = s.
C7_TextRoundTrip ==
    /\ \A i \in 1..(Len(tlog) - 1) :
          (tlog[i].op = "String" /\ tlog[i + 1].op = "Parse")
          => tlog[i + 1].err = ErrNil /\ tlog[i + 1].u = tlog[i].u
    /\ \A i \in 1..Len(tlog) :
          (tlog[i].op = "Parse" /\ CanonicalLower(tlog[i].s))
          => /\ tlog[i].err = ErrNil
             /\ (i < Len(tlog) /\ tlog[i + 1].op = "String")
                => tlog[i + 1].s = tlog[i].s

\* A canonical lower-case string with letter digits was parsed, the value
\* formatted, and the text parsed again.
C7_Witness ==
    /\ Len(tlog) = 3
    /\ tlog[1].op = "Parse"
    /\ tlog[2].op = "String"
    /\ tlog[3].op = "Parse"
    /\ CanonicalLower(tlog[1].s)
    /\ \E p \in 0..35 : tlog[1].s[p] \in 97..102
    /\ \E b \in 0..15 : tlog[1].u[b] # 0
    /\ tlog[2].s = tlog[1].s
    /\ tlog[3].u = tlog[2].u

\* C9: Parse accepts upper-case and lower-case hex digits and maps a
\* well-formed string and its case-swapped variant to the same value;
\* String emits lower case, so Parse(s).String() is s in lower case for
\* every well-formed s.
C9_CaseHandling ==
    \A i \in 1..Len(tlog) :
        (tlog[i].op = "Parse" /\ WellFormed(tlog[i].s))
        => /\ tlog[i].err = ErrNil
           /\ tlog[i].u = Parse(SwapCase(tlog[i].s)).u
           /\ (i < Len(tlog) /\ tlog[i + 1].op = "String")
              => tlog[i + 1].s = ToLower(tlog[i].s)

\* A well-formed string with digits of both cases was parsed and the value
\* formatted.
C9_Witness ==
    /\ Len(tlog) >= 2
    /\ tlog[1].op = "Parse"
    /\ tlog[2].op = "String"
    /\ WellFormed(tlog[1].s)
    /\ \E p \in 0..35 : tlog[1].s[p] \in 65..70
    /\ \E p \in 0..35 : tlog[1].s[p] \in 97..102
    /\ tlog[2].s # tlog[1].s
    /\ tlog[2].s = ToLower(tlog[1].s)

----------------------------------------------------------------------------
(* Properties of concurrent calls (specification ConcSpec).                *)

\* C10: when goroutines run Encode and Decode at once on one identifier
\* and key, in any interleaving, each call has the result it has when run
\* alone, and the caller's identifier and key are unchanged.
C10_ConcurrentCalls ==
    /\ mem[CallerCell] = id
    /\ callerKey \in ConcKeys
    /\ \A g \in Callers :
          /\ pc[g] # "idle" => frame[g].key = callerKey
          /\ pc[g] = "return" => mem[OutCell(g)] = Alone(g)
          /\ pc[g] = "done" => ret[g] = Alone(g)

\* An Encode and a Decode, both past their last write and neither returned:
\* the two calls overlap, and each has changed its copy.
C10_Witness ==
    /\ pc[1] = "return"
    /\ pc[2] = "return"
    /\ frame[1].op = "Encode"
    /\ frame[2].op = "Decode"
    /\ mem[OutCell(1)] # id
    /\ mem[OutCell(2)] # id
    /\ mem[OutCell(1)] # mem[OutCell(2)]

----------------------------------------------------------------------------
(* Properties of NewRandomKey (specification KeySpec).                     *)

\* C11: if the random source reports an error, NewRandomKey returns that
\* error and the zero Key, never a key made of partially filled bytes; if
\* the source succeeds it returns no error and the key whose K0 and K1 are
\* the little-endian values of the first and the second 8 random bytes.
C11_EntropyFailurePropagates ==
    kcalls > 0
    => /\ ksrc.err # ErrNil
          => /\ kret.err = ksrc.err
             /\ \A i \in 0..7 : At(kret.key.K0, i) = 0 /\ At(kret.key.K1, i) = 0
       /\ ksrc.err = ErrNil
          => /\ kret.err = ErrNil
             /\ \A i \in 0..7 :
                   /\ At(kret.key.K0, i) = ksrc.buf[i]
                   /\ At(kret.key.K1, i) = ksrc.buf[8 + i]

\* The source of the second call failed after filling 15 bytes, none of
\* them zero, and the call returned the error and the zero Key.
C11_Witness ==
    /\ kcalls = 2
    /\ ksrc.err = "entropy unavailable"
    /\ ksrc.n = 15
    /\ \A i \in 0..14 : ksrc.buf[i] # 0
    /\ kret.err = "entropy unavailable"
    /\ kret.key = ZeroKey

----------------------------------------------------------------------------
(* Further properties of Encode and Decode (specification Spec).           *)

\* C12: for every 16-byte x and key k, Decode(x, k) and Encode(x, k) are
\* the same bytes but for the high nibble of byte 6, 7 for Decode and 4 for
\* Encode; Decode validates nothing and is defined for inputs that are not
\* version-4 facades.
C12_DecodeMirrorsEncode ==
    trace # <<>>
    => /\ trace[Len(trace)].op = "Decode"
          => /\ WithVersion(trace[Len(trace)].out, 4)
                  = Encode(trace[Len(trace)].in, trace[Len(trace)].key)
             /\ trace[Len(trace)].out[6] \div 16 = 7
       /\ trace[Len(trace)].op = "Encode"
          => /\ WithVersion(trace[Len(trace)].out, 7)
                  = Decode(trace[Len(trace)].in, trace[Len(trace)].key)
             /\ trace[Len(trace)].out[6] \div 16 = 4

\* Decode was applied to an identifier that is no version-4 facade (version
\* nibble 15, variant bits 11) and changed its timestamp field.
C12_Witness ==
    /\ Len(trace) = 1
    /\ trace[1].op = "Decode"
    /\ id[6] \div 16 = 15
    /\ id[8] \div 64 = 3
    /\ TimestampOf(trace[1].out) # TimestampOf(id)
    /\ trace[1].out[6] \div 16 = 7


\* C13: identifiers that agree on the 74 payload bits have the same 10-byte
\* mask input, whatever their timestamp, version nibble and variant bits;
\* hence the mask Decode computes on Encode(x, k) is the mask Encode
\* computed on x.
C13_MaskInputFromPayloadOnly ==
    /\ \A y \in Ids :
          PayloadOf(y) = PayloadOf(cur)
          => buildSipInputFromV7(y) = buildSipInputFromV7(cur)
    /\ (/\ Len(trace) >= 2
        /\ trace[Len(trace) - 1].op = "Encode"
        /\ trace[Len(trace)].op = "Decode"
        /\ trace[Len(trace)].key = trace[Len(trace) - 1].key)
       => Low48(PayloadHash(trace[Len(trace)].in, trace[Len(trace)].key))
            = Low48(PayloadHash(trace[Len(trace) - 1].in,
                                trace[Len(trace) - 1].key))

\* An identifier with payload bits set, version nibble 15 and variant bits
\* 11 was encoded, which changed its timestamp field, version nibble and
\* variant bits, and the facade decoded with the same key.
C13_Witness ==
    /\ Len(trace) = 2
    /\ trace[1].op = "Encode"
    /\ trace[2].op = "Decode"
    /\ trace[2].key = trace[1].key
    /\ id[6] \div 16 = 15
    /\ id[8] \div 64 = 3
    /\ PayloadOf(id)[3] # 0
    /\ TimestampOf(trace[2].in) # TimestampOf(id)
    /\ trace[2].in[8] \div 64 = 2
    /\ buildSipInputFromV7(trace[2].in) = buildSipInputFromV7(id)


----------------------------------------------------------------------------
(* The mask input of a concrete identifier (specification ConcSpec).       *)

----------------------------------------------------------------------------
(* Sequences of Encode and Decode (specification Spec).                    *)

\* C15: Decode(Encode(x, k), k) is x with its version nibble replaced by 7
\* and its variant bits by 10, so it is x exactly when x carries version 7
\* and variant 10; Encode(Decode(f, k), k) is f with version nibble 4 and
\* variant bits 10; the result of Encode does not depend on the version
\* nibble and variant bits of its input.
C15_NormalisingRoundTrip ==
    /\ (/\ Len(trace) >= 2
        /\ trace[Len(trace) - 1].op = "Encode"
        /\ trace[Len(trace)].op = "Decode"
        /\ trace[Len(trace)].key = trace[Len(trace) - 1].key)
       => /\ trace[Len(trace)].out
               = WithVariant10(WithVersion(trace[Len(trace) - 1].in, 7))
          /\ trace[Len(trace)].out = trace[Len(trace) - 1].in
               <=> IsV7(trace[Len(trace) - 1].in)
    /\ (/\ Len(trace) >= 2
        /\ trace[Len(trace) - 1].op = "Decode"
        /\ trace[Len(trace)].op = "Encode"
        /\ trace[Len(trace)].key = trace[Len(trace) - 1].key)
       => trace[Len(trace)].out
            = WithVariant10(WithVersion(trace[Len(trace) - 1].in, 4))
    /\ (trace # <<>> /\ trace[Len(trace)].op = "Encode")
       => trace[Len(trace)].out
            = Encode(OtherTag(trace[Len(trace)].in), trace[Len(trace)].key)

\* An identifier with version nibble 15 and variant bits 11 was encoded and
\* the facade decoded with the same key: the result is not the identifier.
C15_Witness ==
    /\ Len(trace) = 2
    /\ trace[1].op = "Encode"
    /\ trace[2].op = "Decode"
    /\ trace[2].key = trace[1].key
    /\ id[6] \div 16 = 15
    /\ id[8] \div 64 = 3
    /\ TimestampOf(trace[1].out) # TimestampOf(id)
    /\ trace[2].out # id
    /\ TimestampOf(trace[2].out) = TimestampOf(id)


\* C16: after any sequence of n >= 1 Encode and Decode calls, all with one
\* key k, the result keeps the 74 payload bits of x, has variant bits 10,
\* has version nibble 4 if the last call was Encode and 7 if it was Decode,
\* and its timestamp field is that of x when n is even and that of x XOR
\* mask(k, payload) when n is odd; Encode applied twice shows the
\* timestamp of x under a version-4 tag.
C16_SequenceOfCalls ==
    (trace # <<>> /\ \A i \in 1..Len(trace) : trace[i].key = trace[1].key)
    => /\ PayloadOf(cur) = PayloadOf(id)
       /\ cur[8] \div 64 = 2
       /\ cur[6] \div 16 = (IF trace[Len(trace)].op = "Encode" THEN 4 ELSE 7)
       /\ TimestampOf(cur)
            = (IF Len(trace) % 2 = 0 THEN TimestampOf(id)
               ELSE Xor48(TimestampOf(id), Low48(PayloadHash(id, trace[1].key))))

\* Encode was applied twice with one key to a v7 identifier with a
\* timestamp: the first call masked the timestamp, the second shows it
\* again under version nibble 4.
C16_Witness ==
    /\ Len(trace) = 2
    /\ trace[1].op = "Encode"
    /\ trace[2].op = "Encode"
    /\ trace[2].key = trace[1].key
    /\ IsV7(id)
    /\ TimestampOf(id) # <<0, 0, 0, 0, 0, 0>>
    /\ TimestampOf(trace[1].out) # TimestampOf(id)
    /\ TimestampOf(trace[2].out) = TimestampOf(id)
    /\ trace[2].out[6] \div 16 = 4

====
